---- MODULE Spec2Model ----
(***************************************************************************)
(* The dictionary update worker of src/worker/jpdict-worker.ts and the     *)
(* toolbar presenter of src/background/browser-action.ts.                  *)
(*                                                                         *)
(* The worker is single threaded: every message handler, promise           *)
(* continuation and store callback runs to completion, so each is one      *)
(* action.  The store (@birchill/jpdict-idb) is an external collaborator:  *)
(* the steps it has been asked to run, the callbacks it still owes and the *)
(* load state of its datasets are its state, and it moves on its own.      *)
(***************************************************************************)
EXTENDS Integers, Sequences, FiniteSets, Bags, TLC

\* ---------------------------------------------------------------- bounds

\* Steps the store holds at once (running, or cancelled with a callback owed).
MaxSteps == 2
\* Message handlers suspended on `await dbIsInitialized` at once.
MaxWaiting == 1
\* Retrying error callbacks the store delivers for one step.
MaxRetryCount == 7
\* Retrying errors the store reports per step where progress is checked.
MaxLiveRetries == 1

\* ------------------------------------------------------------- constants

\* initDb gives up once retryCount >= 3.
MaxInitRetries == 3
\* onUpdateError escalates to a warning when retryCount === 5.
WarnRetryCount == 5

Langs == {"en", "fr"}
MajorDataSeries == {"kanji", "names", "words"}
DataSeries == {"words", "kanji", "radicals", "names"}
\* db[series].state as the worker reads it: 'init', or resolved to any of 'empty',
\* 'ok' and 'unavailable', which the worker does not tell apart.
LoadStates == {"init", "resolved"}
ErrorNames == {"AbortError", "OfflineError", "DownloadError"}

\* `currentUpdate === undefined`
NoUpdate == [lang |-> "", series |-> "", forceUpdate |-> FALSE]
\* `lastUpdateError === undefined`
NoError == [name |-> "", nextRetry |-> FALSE, retryCount |-> -1]
\* `retryCount === undefined` in an error callback
NoCount == -1
\* The slot is empty: nothing created a job.
NoOrigin == [by |-> "", idle |-> FALSE]

VARIABLES
    initPc,          \* where initDb is: opening, backoff, destroying, ready, failed
    retryCount,      \* initDb's local retryCount
    dbIsInitialized, \* the promise: "pending", "true", "false"
    db,              \* the load state of each dataset of the current store instance
    waiting,         \* handlers suspended on `await dbIsInitialized`, in order
    currentUpdate,   \* the job slot
    lastUpdateError, \* the last error state
    steps,           \* the store: the bag of steps started by updateWithRetry
    destroying,      \* a delete request's db.destroy() has not settled yet
    lastEvent,       \* the handler that ran last, with its arguments
    calls,           \* store primitives the last handler called, in order
    out,             \* notifications the last handler posted, in order
    onlyPlain,       \* history: every request so far was an unforced update in
                     \* PlainLang or a querystate
    origin,          \* history: what created the job in the slot
    ui,              \* the presenter's last call: its arguments and the host
    toolbar          \* what the browser action shows

workerVars == <<initPc, retryCount, dbIsInitialized, db, waiting, currentUpdate,
                lastUpdateError, steps, destroying, lastEvent, calls, out, onlyPlain,
                origin>>

vars == <<workerVars, ui, toolbar>>

\* The worker's mutable module state plus the effects of the running handler.
\* cur: currentUpdate, err: lastUpdateError, steps: the store's steps,
\* calls/out: what the handler has called and posted so far.
W0 == [cur |-> currentUpdate, err |-> lastUpdateError, steps |-> steps,
       calls |-> <<>>, out |-> <<>>]

\* ------------------------------------------------------- outbound messages

LeaveBreadcrumb(kind, series) ==
    [type |-> "breadcrumb", kind |-> kind, series |-> series]

NotifyError(name, severity) ==
    [type |-> "error", name |-> name, severity |-> severity]

NotifyDbUpdateComplete == [type |-> "updateComplete"]

NotifyDbStateUpdated(state) == [type |-> "stateUpdated", state |-> state]

\* --------------------------------------------------------- store primitives

CallCancel(series) == [fn |-> "cancelUpdateWithRetry", series |-> series]
CallClear == [fn |-> "clearCachedVersionInfo"]
CallUpdate(series, lang) == [fn |-> "updateWithRetry", series |-> series, lang |-> lang]
CallDestroy == [fn |-> "destroy"]

\* A step as the store holds it: what updateWithRetry was given (series, lang and
\* the two callbacks, which belong to the closure of one updateAllSeries call:
\* its lang and its `forceUpdate || wasForcedUpdate`), whether
\* cancelUpdateWithRetry has hit it, how many retrying errors it has reported and
\* how many warnings those reports caused.
NewStep(series, lang, forced) ==
    [series |-> series, lang |-> lang, forced |-> forced, cancelled |-> FALSE,
     retry |-> 0, warnings |-> 0]

One(s) == SetToBag({s})

\* cancelUpdateWithRetry({db, series}): the store cancels what it runs for the
\* series.  The callbacks of a cancelled step may still arrive.
StoreCancel(ss, series) ==
    LET hit(s) == IF s.series = series THEN [s EXCEPT !.cancelled = TRUE] ELSE s
        old == BagToSet(ss)
        count(r) == (IF r \in old /\ hit(r) = r THEN ss[r] ELSE 0)
                    + (IF r.series = series /\ [r EXCEPT !.cancelled = FALSE] \in old
                       THEN ss[[r EXCEPT !.cancelled = FALSE]] ELSE 0)
    IN  [r \in {hit(s) : s \in old} |-> count(r)]

\* The steps the store is running: started, not over and not cancelled.
InFlight(ss) == {s \in BagToSet(ss) : ~s.cancelled}
NumInFlight(ss) ==
    LET live == InFlight(ss)
    IN  BagCardinality([s \in live |-> ss[s]])

\* ------------------------------------------------------------- the worker

\* Faulty variant: the radicals dataset is not looked at.
AnyInitButRadicals(dbv) ==
    \/ dbv["words"] = "init"
    \/ dbv["kanji"] = "init"
    \/ dbv["names"] = "init"

AnyInit(dbv) ==
    \/ dbv["words"] = "init"
    \/ dbv["kanji"] = "init"
    \/ dbv["radicals"] = "init"
    \/ dbv["names"] = "init"

\* The updateState of the snapshot: the store's own state for the job's series,
\* or the literal idle state when there is no job.
UpdateStateOf(cur) ==
    IF cur # NoUpdate THEN [type |-> "series", series |-> cur.series]
    ELSE [type |-> "idle", series |-> ""]

DoDbStateNotification(w, dbv) ==
    IF AnyInit(dbv) THEN w
    ELSE [w EXCEPT !.out = Append(@, NotifyDbStateUpdated(
              [db |-> dbv, updateState |-> UpdateStateOf(w.cur),
               updateError |-> w.err]))]

\* Faulty variant: cancelUpdate waits for the store and leaves the job in the slot.
CancelUpdateKeepsSlot(w) ==
    IF w.cur = NoUpdate THEN w
    ELSE [w EXCEPT !.calls = Append(@, CallCancel(w.cur.series)),
                   !.steps = StoreCancel(@, w.cur.series)]

CancelUpdate(w) ==
    IF w.cur = NoUpdate THEN w
    ELSE [w EXCEPT !.calls = Append(@, CallCancel(w.cur.series)),
                   !.steps = StoreCancel(@, w.cur.series),
                   !.cur = NoUpdate]

\* Faulty variant: the cycle starts over after words.
NextSeriesAround(s) ==
    IF s = "kanji" THEN "names" ELSE IF s = "names" THEN "words" ELSE "kanji"

\* The series after s in the cycle; "" after words.
NextSeries(s) ==
    IF s = "kanji" THEN "names" ELSE IF s = "names" THEN "words" ELSE ""

\* `forceUpdate || wasForcedUpdate`, the only use runNextUpdate makes of the two.
ClosureForced(forceUpdate, wasForcedUpdate) == forceUpdate \/ wasForcedUpdate

\* Whether runNextUpdate clears the cached version info before a step.
ShouldClear(forced) == forced

\* runNextUpdate of the closure (lang, forced).
RunNextUpdate(w, lang, forced, dbv) ==
    LET w1 == IF w.cur # NoUpdate
              THEN DoDbStateNotification(
                       [w EXCEPT !.err = NoError,
                                 !.out = Append(@, LeaveBreadcrumb("success", w.cur.series))],
                       dbv)
              ELSE w
        cur2 == IF w1.cur = NoUpdate
                THEN [lang |-> lang, series |-> "kanji", forceUpdate |-> forced]
                ELSE IF NextSeries(w1.cur.series) # ""
                THEN [w1.cur EXCEPT !.series = NextSeries(w1.cur.series)]
                ELSE NoUpdate
    IN  IF cur2 = NoUpdate
        THEN [w1 EXCEPT !.cur = NoUpdate, !.out = Append(@, NotifyDbUpdateComplete)]
        ELSE [w1 EXCEPT
                !.cur = cur2,
                !.calls = (IF ShouldClear(forced) THEN Append(@, CallClear) ELSE @)
                          \o <<CallUpdate(cur2.series, lang)>>,
                !.steps = @ (+) One(NewStep(cur2.series, lang, forced))]

\* Faulty variant: the running job's own forced flag is not looked at.
LetCurrentRunUnlessForcing(cur, lang, forceUpdate) ==
    cur.lang = lang /\ ~forceUpdate

\* Whether updateAllSeries lets the current update run.
LetCurrentRun(cur, lang, forceUpdate) ==
    cur.lang = lang /\ (cur.forceUpdate \/ ~forceUpdate)

\* Faulty variant: the running job is not cancelled, so runNextUpdate takes the request
\* for the completion of its step.
UpdateAllSeriesKeepsJob(w, lang, forceUpdate, dbv) ==
    IF w.cur # NoUpdate /\ LetCurrentRun(w.cur, lang, forceUpdate) THEN w
    ELSE RunNextUpdate(w, lang,
                       ClosureForced(forceUpdate, w.cur # NoUpdate /\ w.cur.forceUpdate),
                       dbv)

\* updateAllSeries once dbIsInitialized has resolved to true.
UpdateAllSeries(w, lang, forceUpdate, dbv) ==
    IF w.cur # NoUpdate /\ LetCurrentRun(w.cur, lang, forceUpdate) THEN w
    ELSE LET wasForcedUpdate == w.cur # NoUpdate /\ w.cur.forceUpdate
             w1 == IF w.cur # NoUpdate THEN [CancelUpdate(w) EXCEPT !.cur = NoUpdate] ELSE w
         IN  RunNextUpdate(w1, lang, ClosureForced(forceUpdate, wasForcedUpdate), dbv)

\* Faulty variant: every retry from the threshold on is escalated.
IsWarnCountOrMore(count) == count >= WarnRetryCount

\* Whether a retrying error is escalated to a warning.
IsWarnCount(count) == count = WarnRetryCount

\* Faulty variant: only a cancellation is expected.
IsExpectedErrorAbortOnly(name) == name = "AbortError"

\* Whether a final error is only a breadcrumb.
IsExpectedError(name) == name = "AbortError" \/ name = "OfflineError"

\* toUpdateErrorState(params)
ToUpdateErrorState(name, nextRetry, count) ==
    [name |-> name, nextRetry |-> nextRetry, retryCount |-> count]

\* Faulty variant: a final error ends the job.
OnUpdateErrorEndsJob(w, series, name, nextRetry, count, dbv) ==
    LET posted == IF nextRetry
                  THEN <<LeaveBreadcrumb("retrying", series)>>
                       \o (IF IsWarnCount(count)
                           THEN <<NotifyError(name, "warning")>> ELSE <<>>)
                  ELSE IF ~IsExpectedError(name)
                  THEN <<NotifyError(name, "")>>
                  ELSE <<LeaveBreadcrumb("failed", series)>>
    IN  DoDbStateNotification(
            [w EXCEPT !.out = @ \o posted,
                      !.cur = IF nextRetry THEN @ ELSE NoUpdate,
                      !.err = ToUpdateErrorState(name, nextRetry, count)],
            dbv)

\* Faulty variant: the snapshot is posted before lastUpdateError is set.
OnUpdateErrorNotifiesFirst(w, series, name, nextRetry, count, dbv) ==
    LET posted == IF nextRetry
                  THEN <<LeaveBreadcrumb("retrying", series)>>
                       \o (IF IsWarnCount(count)
                           THEN <<NotifyError(name, "warning")>> ELSE <<>>)
                  ELSE IF ~IsExpectedError(name)
                  THEN <<NotifyError(name, "")>>
                  ELSE <<LeaveBreadcrumb("failed", series)>>
        w1 == DoDbStateNotification([w EXCEPT !.out = @ \o posted], dbv)
    IN  [w1 EXCEPT !.err = ToUpdateErrorState(name, nextRetry, count)]

\* onUpdateError(series)({error, nextRetry, retryCount})
OnUpdateError(w, series, name, nextRetry, count, dbv) ==
    LET posted == IF nextRetry
                  THEN <<LeaveBreadcrumb("retrying", series)>>
                       \o (IF IsWarnCount(count)
                           THEN <<NotifyError(name, "warning")>> ELSE <<>>)
                  ELSE IF ~IsExpectedError(name)
                  THEN <<NotifyError(name, "")>>
                  ELSE <<LeaveBreadcrumb("failed", series)>>
    IN  DoDbStateNotification(
            [w EXCEPT !.out = @ \o posted,
                      !.err = ToUpdateErrorState(name, nextRetry, count)],
            dbv)

\* ------------------------------------------------------- the browser action

\* The load states of a dataset and of the flat-file fallback, the update errors
\* a snapshot can carry ("" for none), and the tab of a call.
DbStates == {"init", "empty", "ok"}
FallbackStates == {"unloaded", "loading", "ok", "error"}
UiErrorNames == {"", "AbortError", "QuotaExceededError", "DownloadError"}
TabIds == {"tab"}
ProgressPercents == {50}
UpdateStates ==
    {[type |-> "idle", series |-> "", percent |-> 0]}
    \cup {[type |-> "checking", series |-> d, percent |-> 0] : d \in DataSeries}
    \cup {[type |-> "updating", series |-> d, percent |-> pc] :
              d \in DataSeries, pc \in ProgressPercents}

\* The arguments of the presenter's first call, on a host with or without SVG
\* icons and with or without a compose action.
UiStart(svg, compose) ==
    [fn |-> "start", enabled |-> FALSE, toolbarIcon |-> "default",
     words |-> "init", fallback |-> "unloaded", names |-> "init", kanji |-> "init",
     update |-> [type |-> "idle", series |-> "", percent |-> 0],
     error |-> "", tabId |-> "tab", svg |-> svg, compose |-> compose]

NoShown == [value |-> "", tabId |-> "undefined"]
ToolbarStart ==
    [icon |-> NoShown, badge |-> NoShown, color |-> NoShown, title |-> NoShown,
     composeIcon |-> "", composeBadge |-> "", composeColor |-> "", composeTitle |-> ""]

RECURSIVE Join(_)
Join(parts) ==
    IF Len(parts) = 1 THEN parts[1] ELSE parts[1] \o "-" \o Join(Tail(parts))

SeriesColor(series) ==
    IF series = "words" THEN "green" ELSE IF series = "names" THEN "blue" ELSE "purple"

\* Math.round(totalProgress * 5) * 20, with totalProgress given in percent.
ProgressStep(percent) == ((percent * 5 + 50) \div 100) * 20

\* The base icon and tooltip of updateBrowserAction.
BaseIcon(st) ==
    LET variant == <<"10ten">> \o (IF st.toolbarIcon = "sky" THEN <<"sky">> ELSE <<>>)
    IN  IF st.enabled
        THEN IF st.words = "ok" \/ st.fallback = "ok"
             THEN [parts |-> variant, tooltip |-> "command_toggle_enabled"]
             ELSE IF st.words = "init" \/ st.fallback = "loading"
             THEN [parts |-> variant, tooltip |-> "command_toggle_loading"]
             ELSE IF st.fallback = "unloaded"
             THEN [parts |-> variant, tooltip |-> "command_toggle_enabled"]
             ELSE [parts |-> variant \o <<"error">>,
                   tooltip |-> "error_loading_dictionary"]
        ELSE [parts |-> variant \o <<"disabled">>, tooltip |-> "command_toggle_disabled"]

\* The icon and tooltip with the overlay of the update state.
OverlaidIcon(st) ==
    LET base == BaseIcon(st)
        hasError == \E i \in 1..Len(base.parts) : base.parts[i] = "error"
    IN  IF st.update.type = "checking"
        THEN [parts |-> base.parts \o <<"0p", SeriesColor(st.update.series)>>,
              tooltip |-> "command_toggle_checking"]
        ELSE IF st.update.type = "updating"
        THEN [parts |-> IF hasError THEN base.parts
                        ELSE base.parts \o <<ToString(ProgressStep(st.update.percent)) \o "p",
                                             SeriesColor(st.update.series)>>,
              tooltip |-> "command_toggle_downloading"]
        ELSE base

\* setIcon(iconFilename, tabId)
SetIcon(tb, st, iconFilename, tabId) ==
    LET path == IF st.svg THEN "images/" \o iconFilename \o ".svg"
                ELSE "images/" \o iconFilename \o "-16.png"
    IN  [tb EXCEPT !.icon = [value |-> path, tabId |-> tabId],
                   !.composeIcon = IF st.compose THEN path ELSE @]

\* Faulty variant: a quota error is shown like any other.
ShowsErrorBadgeForQuota(st) ==
    /\ \E d \in MajorDataSeries : st[d] # "ok"
    /\ st.error # ""
    /\ st.error # "AbortError"

\* Whether updateBrowserAction shows the warning overlay.
ShowsErrorBadge(st) ==
    /\ \E d \in MajorDataSeries : st[d] # "ok"
    /\ st.error # ""
    /\ st.error # "AbortError"
    /\ st.error # "QuotaExceededError"

\* updateBrowserAction({enabled, jpdictState, tabId, toolbarIcon})
UpdateBrowserAction(tb, st) ==
    LET shown == OverlaidIcon(st)
        tb1 == SetIcon(tb, st, Join(shown.parts), st.tabId)
        tb2 == IF ShowsErrorBadge(st)
               THEN [tb1 EXCEPT !.badge = [value |-> "!", tabId |-> st.tabId],
                                !.color = [value |-> "yellow", tabId |-> st.tabId],
                                !.composeBadge = IF st.compose THEN "!" ELSE @,
                                !.composeColor = IF st.compose THEN "yellow" ELSE @]
               ELSE [tb1 EXCEPT !.badge = [value |-> "", tabId |-> st.tabId],
                                !.composeBadge = IF st.compose THEN "" ELSE @]
        tooltip == IF ShowsErrorBadge(st) THEN "command_toggle_update_error"
                   ELSE shown.tooltip
    IN  [tb2 EXCEPT !.title = [value |-> tooltip, tabId |-> st.tabId],
                    !.composeTitle = IF st.compose THEN tooltip ELSE @]

\* The file name setDefaultToolbarIcon chooses.
DefaultIconFilename(toolbarIcon) ==
    IF toolbarIcon = "sky" THEN "10ten-disabled" ELSE "10ten-sky-disabled"

\* setDefaultToolbarIcon(toolbarIcon)
SetDefaultToolbarIcon(tb, st, toolbarIcon) ==
    SetIcon(tb, st, DefaultIconFilename(toolbarIcon), "undefined")

\* The argument records that differ from st in at most one component.
OneChange(st) ==
    {[st EXCEPT !.enabled = v] : v \in BOOLEAN}
    \cup {[st EXCEPT !.toolbarIcon = v] : v \in {"default", "sky"}}
    \cup {[st EXCEPT !.words = v] : v \in DbStates}
    \cup {[st EXCEPT !.names = v] : v \in DbStates}
    \cup {[st EXCEPT !.kanji = v] : v \in DbStates}
    \cup {[st EXCEPT !.fallback = v] : v \in FallbackStates}
    \cup {[st EXCEPT !.update = v] : v \in UpdateStates}
    \cup {[st EXCEPT !.error = v] : v \in UiErrorNames}
    \cup {[st EXCEPT !.tabId = v] : v \in TabIds}

\* The background calls updateBrowserAction after a change of the extension's
\* state, of the dictionary state or of the icon preference.
UpdateBrowserActionCall(st) ==
    /\ ui' = [st EXCEPT !.fn = "updateBrowserAction"]
    /\ toolbar' = UpdateBrowserAction(toolbar, st)
    /\ UNCHANGED workerVars

\* The background calls setDefaultToolbarIcon at startup or when the icon
\* preference changes.
SetDefaultToolbarIconCall(toolbarIcon) ==
    /\ ui' = [ui EXCEPT !.fn = "setDefaultToolbarIcon", !.toolbarIcon = toolbarIcon]
    /\ toolbar' = SetDefaultToolbarIcon(toolbar, ui, toolbarIcon)
    /\ UNCHANGED workerVars

\* ---------------------------------------------------------------- actions

Init ==
    /\ initPc = "opening"
    /\ retryCount = 0
    /\ dbIsInitialized = "pending"
    /\ db = [s \in DataSeries |-> "init"]
    /\ waiting = <<>>
    /\ currentUpdate = NoUpdate
    /\ lastUpdateError = NoError
    /\ steps = EmptyBag
    /\ destroying = FALSE
    /\ lastEvent = [type |-> "start"]
    /\ calls = <<>>
    /\ out = <<>>
    /\ onlyPlain = TRUE
    /\ origin = NoOrigin
    /\ ui = UiStart(TRUE, FALSE)
    /\ toolbar = ToolbarStart

\* The store has opened at the first attempt and resolved its four datasets.
InitReady ==
    /\ initPc = "ready"
    /\ retryCount = 0
    /\ dbIsInitialized = "true"
    /\ db = [s \in DataSeries |-> "resolved"]
    /\ waiting = <<>>
    /\ currentUpdate = NoUpdate
    /\ lastUpdateError = NoError
    /\ steps = EmptyBag
    /\ destroying = FALSE
    /\ lastEvent = [type |-> "ready"]
    /\ calls = <<>>
    /\ out = <<>>
    /\ onlyPlain = TRUE
    /\ origin = NoOrigin
    /\ ui = UiStart(TRUE, FALSE)
    /\ toolbar = ToolbarStart

\* The language of the requests that onlyPlain follows.
PlainLang == "en"

HasCall(cs, fn) == \E i \in 1..Len(cs) : cs[i].fn = fn

\* What created the job that the handler leaves in the slot: a forced request
\* ("forced"), an unforced request that superseded a forced job ("inherited"), any
\* other request ("unforced"), or a completion callback that found the slot empty
\* ("callback"); and whether the slot was empty then (idle).
OriginAfter(w, ev) ==
    IF w.cur = NoUpdate THEN NoOrigin
    ELSE IF ev.type = "update" /\ HasCall(w.calls, "updateWithRetry")
    THEN [by |-> IF ev.force THEN "forced"
                 ELSE IF currentUpdate.forceUpdate THEN "inherited" ELSE "unforced",
          idle |-> currentUpdate = NoUpdate]
    ELSE IF ev.type = "complete" /\ currentUpdate = NoUpdate
    THEN [by |-> "callback", idle |-> TRUE]
    ELSE origin

IsRequest(ev) == ev.type \in {"querystate", "update", "cancelupdate", "delete"}
IsPlain(ev) ==
    \/ ev.type = "querystate"
    \/ ev.type = "update" /\ ev.lang = PlainLang /\ ~ev.force

\* The handler's effects become the worker's state.
Commit(w, ev) ==
    /\ currentUpdate' = w.cur
    /\ lastUpdateError' = w.err
    /\ steps' = w.steps
    /\ calls' = w.calls
    /\ out' = w.out
    /\ lastEvent' = ev
    /\ onlyPlain' = (onlyPlain /\ (IsRequest(ev) => IsPlain(ev)))
    /\ origin' = OriginAfter(w, ev)
    /\ UNCHANGED <<ui, toolbar>>

\* Continuations of `await dbIsInitialized` run before any other task.
NoneWaitingToRun == dbIsInitialized = "pending" \/ waiting = <<>>

QueryMsg == [type |-> "querystate", lang |-> "", force |-> FALSE]
UpdateMsg(lang, force) == [type |-> "update", lang |-> lang, force |-> force]

\* A 'querystate' or 'update' handler reaches `await dbIsInitialized` while the
\* promise is pending.
Await(msg) ==
    /\ dbIsInitialized = "pending"
    /\ Len(waiting) < MaxWaiting
    /\ waiting' = Append(waiting, msg)
    /\ Commit(W0, [type |-> "await", msg |-> msg])
    /\ UNCHANGED <<initPc, retryCount, dbIsInitialized, db, destroying>>

\* Faulty variant: the value the promise resolved to is not looked at.
AfterAwaitAnyResult(msg) ==
    IF msg.type = "querystate" THEN DoDbStateNotification(W0, db)
    ELSE UpdateAllSeries(W0, msg.lang, msg.force, db)

\* What a 'querystate' or 'update' handler does after `await dbIsInitialized`.
AfterAwait(msg) ==
    IF dbIsInitialized # "true" THEN W0
    ELSE IF msg.type = "querystate" THEN DoDbStateNotification(W0, db)
    ELSE UpdateAllSeries(W0, msg.lang, msg.force, db)

\* onmessage, 'querystate', the promise settled
QueryState ==
    /\ dbIsInitialized # "pending"
    /\ waiting = <<>>
    /\ Commit(AfterAwait(QueryMsg), QueryMsg)
    /\ UNCHANGED <<initPc, retryCount, dbIsInitialized, db, waiting, destroying>>

\* onmessage, 'update', the promise settled
Update(lang, force) ==
    /\ dbIsInitialized # "pending"
    /\ waiting = <<>>
    /\ BagCardinality(AfterAwait(UpdateMsg(lang, force)).steps) <= MaxSteps
    /\ Commit(AfterAwait(UpdateMsg(lang, force)), UpdateMsg(lang, force))
    /\ UNCHANGED <<initPc, retryCount, dbIsInitialized, db, waiting, destroying>>

\* Faulty variant: an update request that had to wait is dropped.
ResumeDropsUpdate ==
    /\ dbIsInitialized # "pending"
    /\ waiting # <<>>
    /\ waiting' = Tail(waiting)
    /\ Commit(IF Head(waiting).type = "update" THEN W0 ELSE AfterAwait(Head(waiting)),
              Head(waiting))
    /\ UNCHANGED <<initPc, retryCount, dbIsInitialized, db, destroying>>

\* The continuation of the oldest suspended handler, once the promise settled.
Resume ==
    /\ dbIsInitialized # "pending"
    /\ waiting # <<>>
    /\ waiting' = Tail(waiting)
    /\ Commit(AfterAwait(Head(waiting)), Head(waiting))
    /\ UNCHANGED <<initPc, retryCount, dbIsInitialized, db, destroying>>

\* onmessage, 'cancelupdate'
CancelUpdateMsg ==
    /\ NoneWaitingToRun
    /\ Commit(CancelUpdate(W0), [type |-> "cancelupdate"])
    /\ UNCHANGED <<initPc, retryCount, dbIsInitialized, db, waiting, destroying>>

\* Faulty variant: a delete request cancels the running job first.
DeleteCancelsUpdate ==
    /\ NoneWaitingToRun
    /\ ~destroying
    /\ destroying' = TRUE
    /\ Commit([CancelUpdate(W0) EXCEPT !.calls = Append(@, CallDestroy)],
              [type |-> "delete"])
    /\ UNCHANGED <<initPc, retryCount, dbIsInitialized, db, waiting>>

\* onmessage, 'delete': db is set from the first statement of initDb on, so
\* db.destroy() is called and awaited.
Delete ==
    /\ NoneWaitingToRun
    /\ ~destroying
    /\ destroying' = TRUE
    /\ Commit([W0 EXCEPT !.calls = <<CallDestroy>>], [type |-> "delete"])
    /\ UNCHANGED <<initPc, retryCount, dbIsInitialized, db, waiting>>

\* db.destroy() of a delete request settles; a rejection is posted as an error.
DeleteSettled(ok) ==
    /\ NoneWaitingToRun
    /\ destroying
    /\ destroying' = FALSE
    /\ Commit([W0 EXCEPT !.out = IF ok THEN <<>> ELSE <<NotifyError("destroy", "")>>],
              [type |-> "deleted", ok |-> ok])
    /\ UNCHANGED <<initPc, retryCount, dbIsInitialized, db, waiting>>

\* ------------------------------------------------------------------ initDb

\* Whether initDb gives up after a failed attempt.
GiveUp(count) == count >= MaxInitRetries

\* `await db.ready` resolves: initDb returns and dbIsInitialized becomes true.
ReadyResolved ==
    /\ initPc = "opening"
    /\ initPc' = "ready"
    /\ dbIsInitialized' = "true"
    /\ Commit(W0, [type |-> "ready"])
    /\ UNCHANGED <<retryCount, db, waiting, destroying>>

\* `await db.ready` rejects: give up, or count the retry and wait for idle time.
ReadyRejected ==
    /\ initPc = "opening"
    /\ IF GiveUp(retryCount)
       THEN /\ initPc' = "failed"
            /\ dbIsInitialized' = "false"
            /\ UNCHANGED retryCount
       ELSE /\ initPc' = "backoff"
            /\ retryCount' = retryCount + 1
            /\ UNCHANGED dbIsInitialized
    /\ Commit(W0, [type |-> "openfailed"])
    /\ UNCHANGED <<db, waiting, destroying>>

\* requestIdleCallbackPromise resolves: the loop starts over and awaits the
\* destruction of the previous store instance.
BackoffDone ==
    /\ initPc = "backoff"
    /\ initPc' = "destroying"
    /\ Commit([W0 EXCEPT !.calls = <<CallDestroy>>], [type |-> "backoff"])
    /\ UNCHANGED <<retryCount, dbIsInitialized, db, waiting, destroying>>

\* The destruction settles either way: a new store instance is created, the
\* change listener is registered on it and its `ready` is awaited.
Reopen ==
    /\ initPc = "destroying"
    /\ initPc' = "opening"
    /\ db' = [s \in DataSeries |-> "init"]
    /\ Commit(W0, [type |-> "reopen"])
    /\ UNCHANGED <<retryCount, dbIsInitialized, waiting, destroying>>

\* ------------------------------------------------------------- the store

\* The store resolves the load state of a dataset and calls the change listener
\* registered in initDb, which is doDbStateNotification.
StoreChange(series) ==
    /\ NoneWaitingToRun
    /\ db[series] = "init"
    /\ db' = [db EXCEPT ![series] = "resolved"]
    /\ Commit(DoDbStateNotification(W0, db'), [type |-> "change"])
    /\ UNCHANGED <<initPc, retryCount, dbIsInitialized, waiting, destroying>>

\* The record of a store callback: the step it is for.
StepEvent(type, s) ==
    [type |-> type, series |-> s.series, lang |-> s.lang, cancelled |-> s.cancelled]

\* The store reports step s complete: onUpdateComplete, i.e. runNextUpdate of the
\* closure that started the step.
StepComplete(s) ==
    /\ NoneWaitingToRun
    /\ Commit(RunNextUpdate([W0 EXCEPT !.steps = @ (-) One(s)], s.lang, s.forced, db),
              StepEvent("complete", s))
    /\ UNCHANGED <<initPc, retryCount, dbIsInitialized, db, waiting, destroying>>

\* The store reports an error of step s that it will retry, at most cap times.
StepRetry(s, name, cap) ==
    LET w == OnUpdateError([W0 EXCEPT !.steps = @ (-) One(s)],
                           s.series, name, TRUE, s.retry, db)
        warned == Len(SelectSeq(w.out, LAMBDA n : n.type = "error"))
    IN  /\ NoneWaitingToRun
        /\ ~s.cancelled
        /\ s.retry < cap
        /\ Commit([w EXCEPT !.steps = @ (+) One([s EXCEPT !.retry = @ + 1,
                                                          !.warnings = @ + warned])],
                  [type |-> "retry", series |-> s.series, name |-> name,
                   count |-> s.retry])
        /\ UNCHANGED <<initPc, retryCount, dbIsInitialized, db, waiting, destroying>>

\* The store reports a final error of step s (no nextRetry): the step is over.
StepFailed(s, name) ==
    /\ NoneWaitingToRun
    /\ Commit(OnUpdateError([W0 EXCEPT !.steps = @ (-) One(s)],
                            s.series, name, FALSE, NoCount, db),
              [type |-> "failed", series |-> s.series, lang |-> s.lang,
               cancelled |-> s.cancelled, name |-> name])
    /\ UNCHANGED <<initPc, retryCount, dbIsInitialized, db, waiting, destroying>>

\* The store ends a cancelled step without any callback.
StepDropped(s) ==
    /\ NoneWaitingToRun
    /\ s.cancelled
    /\ Commit([W0 EXCEPT !.steps = @ (-) One(s)], [type |-> "dropped"])
    /\ UNCHANGED <<initPc, retryCount, dbIsInitialized, db, waiting, destroying>>

\* ---------------------------------------------------------- specifications

\* The update cycle: the store is open, requests in two languages, forced or not,
\* cancellations, and the store's callbacks, late ones included.
NextJobs ==
    \/ QueryState
    \/ \E lang \in Langs, force \in BOOLEAN : Update(lang, force)
    \/ CancelUpdateMsg
    \/ \E s \in BagToSet(steps) : StepComplete(s)
    \/ \E s \in BagToSet(steps), name \in ErrorNames : StepFailed(s, name)
    \/ \E s \in BagToSet(steps) : StepDropped(s)

SpecJobs == InitReady /\ [][NextJobs]_vars

\* The retry sequence of a step: one language, unforced requests, and the store's
\* retrying errors up to MaxRetryCount per step.  Here the store reports success
\* only for a step it has not been told to cancel; a cancelled step ends with a
\* final error or silently.
NextRetry ==
    \/ QueryState
    \/ Update(PlainLang, FALSE)
    \/ CancelUpdateMsg
    \/ \E s \in InFlight(steps) : StepComplete(s)
    \/ \E s \in BagToSet(steps), name \in ErrorNames : StepRetry(s, name, MaxRetryCount)
    \/ \E s \in BagToSet(steps), name \in ErrorNames : StepFailed(s, name)
    \/ \E s \in BagToSet(steps) : StepDropped(s)

SpecRetry == InitReady /\ [][NextRetry]_vars

\* Progress of a job: unforced requests in one language, cancellations, and a
\* store that reports a few retrying errors per step, may end a step with a final
\* error, and does not keep a completion callback back for ever.
StoreCompletes == \E s \in BagToSet(steps) : StepComplete(s)

NextLive ==
    \/ Update(PlainLang, FALSE)
    \/ CancelUpdateMsg
    \/ StoreCompletes
    \/ \E s \in BagToSet(steps) : StepRetry(s, "OfflineError", MaxLiveRetries)
    \/ \E s \in BagToSet(steps) : StepFailed(s, "AbortError")

SpecLive == InitReady /\ [][NextLive]_vars /\ WF_vars(StoreCompletes)

\* The presenter on its own: the worker's variables stay as constructed.
InitUI ==
    /\ initPc = "opening"
    /\ retryCount = 0
    /\ dbIsInitialized = "pending"
    /\ db = [s \in DataSeries |-> "init"]
    /\ waiting = <<>>
    /\ currentUpdate = NoUpdate
    /\ lastUpdateError = NoError
    /\ steps = EmptyBag
    /\ destroying = FALSE
    /\ lastEvent = [type |-> "start"]
    /\ calls = <<>>
    /\ out = <<>>
    /\ onlyPlain = TRUE
    /\ origin = NoOrigin
    /\ \E svg \in BOOLEAN, compose \in BOOLEAN : ui = UiStart(svg, compose)
    /\ toolbar = ToolbarStart

NextUI ==
    \/ \E st \in OneChange(ui) : UpdateBrowserActionCall(st)
    \/ \E toolbarIcon \in {"default", "sky"} : SetDefaultToolbarIconCall(toolbarIcon)

SpecUI == InitUI /\ [][NextUI]_vars

\* The whole life of the worker, from the first attempt to open the store, with
\* unforced requests in one language.
Next ==
    \/ Await(QueryMsg)
    \/ Await(UpdateMsg(PlainLang, FALSE))
    \/ Resume
    \/ QueryState
    \/ Update(PlainLang, FALSE)
    \/ CancelUpdateMsg
    \/ Delete
    \/ \E ok \in BOOLEAN : DeleteSettled(ok)
    \/ ReadyResolved
    \/ ReadyRejected
    \/ BackoffDone
    \/ Reopen
    \/ \E series \in DataSeries : StoreChange(series)
    \/ \E s \in BagToSet(steps) : StepComplete(s)
    \/ \E s \in BagToSet(steps), name \in ErrorNames : StepFailed(s, name)
    \/ \E s \in BagToSet(steps) : StepDropped(s)

Spec == Init /\ [][Next]_vars

\* ------------------------------------------------------------- properties

\* In cs, every updateWithRetry call has a clearCachedVersionInfo call before it.
ClearBeforeEveryUpdate(cs) ==
    \A i \in 1..Len(cs) :
        cs[i].fn = "updateWithRetry" =>
            \E j \in 1..(i - 1) : cs[j].fn = "clearCachedVersionInfo"

NumPosted(o, type) == Len(SelectSeq(o, LAMBDA n : n.type = type))

\* The request just handled was a duplicate of the running job: same language,
\* and the job already forced or the request unforced.
DuplicateRequest ==
    /\ lastEvent'.type = "update"
    /\ dbIsInitialized' = "true"
    /\ currentUpdate # NoUpdate
    /\ currentUpdate.lang = lastEvent'.lang
    /\ (currentUpdate.forceUpdate \/ ~lastEvent'.force)

\* C1: at most one update step is in flight at the store at any time, late
\* callbacks of cancelled steps included: updateWithRetry is never invoked while
\* a step started earlier has neither completed nor been cancelled.
C1_OneStepInFlight == NumInFlight(steps) <= 1

\* C2: a request for the language of the running job, with the job already forced
\* or the request unforced, leaves the job slot as it is and calls no store
\* primitive; and as long as every request has been an unforced update in one
\* language (or a querystate), at most one step is in flight, a step just started
\* included.
C2_DuplicateRequestIsNoOp ==
    [][ /\ DuplicateRequest =>
            currentUpdate' = currentUpdate /\ calls' = <<>> /\ steps' = steps
        /\ onlyPlain' => NumInFlight(steps') <= 1
      ]_vars

\* A forced request in the language of a forced job that has reached names was
\* handled as a no-op.
C2_Witness ==
    /\ lastEvent.type = "update" /\ lastEvent.force
    /\ calls = <<>>
    /\ currentUpdate # NoUpdate /\ currentUpdate.lang = lastEvent.lang
    /\ currentUpdate.forceUpdate /\ currentUpdate.series = "names"
    /\ NumInFlight(steps) = 1

\* C3: a request accepted while idle starts the job at kanji; each completion
\* callback moves that job one series on, kanji to names to words; the completion
\* of words empties the slot and posts exactly one updateComplete; and no
\* updateComplete is posted for it before the words step has completed.
C3_CycleInOrder ==
    [][ /\ (lastEvent'.type = "update" /\ dbIsInitialized' = "true"
             /\ currentUpdate = NoUpdate) =>
            currentUpdate'.series = "kanji" /\ currentUpdate'.lang = lastEvent'.lang
        /\ (lastEvent'.type = "complete" /\ origin.idle /\ origin.by # "callback") =>
            IF currentUpdate.series = "words"
            THEN currentUpdate' = NoUpdate /\ NumPosted(out', "updateComplete") = 1
            ELSE /\ currentUpdate' =
                       [currentUpdate EXCEPT !.series = NextSeries(currentUpdate.series)]
                 /\ NumPosted(out', "updateComplete") = 0
        /\ (origin.idle /\ origin.by # "callback"
             /\ NumPosted(out', "updateComplete") > 0) =>
            /\ lastEvent'.type = "complete"
            /\ lastEvent'.series = "words" /\ ~lastEvent'.cancelled
      ]_vars

\* C4: a request for another language than the running job's tells the store to
\* cancel the step of the series the job had reached, and leaves a job for the new
\* language at kanji, with updateWithRetry called for kanji in the new language.
C4_SupersedeStartsAtKanji ==
    [][ (/\ lastEvent'.type = "update"
         /\ currentUpdate # NoUpdate
         /\ currentUpdate.lang # lastEvent'.lang) =>
            /\ Len(calls') >= 2
            /\ calls'[1] = CallCancel(currentUpdate.series)
            /\ calls'[Len(calls')] = CallUpdate("kanji", lastEvent'.lang)
            /\ currentUpdate'.lang = lastEvent'.lang
            /\ currentUpdate'.series = "kanji"
            /\ \A s \in InFlight(steps') : s.series = currentUpdate.series =>
                   s.series = "kanji" /\ s.lang = lastEvent'.lang
      ]_vars

\* A job that had reached names was superseded by a request for "fr".
C4_Witness ==
    /\ lastEvent.type = "update" /\ lastEvent.lang = "fr"
    /\ Len(calls) >= 2 /\ calls[1] = CallCancel("names")
    /\ currentUpdate.lang = "fr" /\ currentUpdate.series = "kanji"

\* C5: while the slot holds the job of an accepted force=true request, every
\* updateWithRetry call, of its first step and of every later one, has a
\* clearCachedVersionInfo call before it in the same handler.
C5_ForcedAlwaysClears ==
    origin.by = "forced" =>
        /\ currentUpdate.forceUpdate
        /\ ClearBeforeEveryUpdate(calls)

\* C6: a job restarted by an unforced request that superseded a forced job is
\* forced, and every updateWithRetry call made while it is in the slot has a
\* clearCachedVersionInfo call before it.
C6_ForcedSurvivesSupersession ==
    origin.by = "inherited" =>
        /\ currentUpdate.forceUpdate
        /\ ClearBeforeEveryUpdate(calls)

\* C7: cancelUpdate with a job running at series s calls cancelUpdateWithRetry
\* for s and empties the slot in the same step, and a querystate handled right
\* after it publishes one snapshot, whose update state is idle.
C7_CancelIsSynchronous ==
    [][ /\ (lastEvent'.type = "cancelupdate" /\ currentUpdate # NoUpdate) =>
            /\ calls' = <<CallCancel(currentUpdate.series)>>
            /\ currentUpdate' = NoUpdate
        /\ (/\ lastEvent.type = "cancelupdate"
            /\ lastEvent'.type = "querystate"
            /\ dbIsInitialized' = "true"
            /\ ~AnyInit(db')) =>
            /\ NumPosted(out', "stateUpdated") = 1
            /\ \A i \in 1..Len(out') : out'[i].type = "stateUpdated" =>
                   out'[i].state.updateState.type = "idle"
      ]_vars

\* A job at names was cancelled; the store still owes the callbacks of its step.
C7_Witness ==
    /\ lastEvent.type = "cancelupdate"
    /\ calls = <<CallCancel("names")>>
    /\ currentUpdate = NoUpdate
    /\ \E s \in BagToSet(steps) : s.cancelled /\ s.series = "names"

\* C8: whatever triggers doDbStateNotification, no stateUpdated is posted while
\* one of words, kanji, radicals and names is in load state 'init'.
C8_NoSnapshotWhileUninitialized ==
    NumPosted(out, "stateUpdated") > 0 =>
        /\ \A d \in {"words", "kanji", "radicals", "names"} : db[d] # "init"
        /\ \A i \in 1..Len(out) : out[i].type = "stateUpdated" =>
               \A d \in {"words", "kanji", "radicals", "names"} :
                   out[i].state.db[d] # "init"

\* A step completed while only radicals was still 'init': the breadcrumb was
\* posted and the snapshot withheld.
C8_Witness ==
    /\ lastEvent.type = "complete"
    /\ db["radicals"] = "init"
    /\ db["words"] # "init" /\ db["kanji"] # "init" /\ db["names"] # "init"
    /\ NumPosted(out, "breadcrumb") = 1
    /\ NumPosted(out, "stateUpdated") = 0

\* C9 as stated: once the store has failed to open 4 times, no request creates a
\* job or calls a store primitive of the update, and no stateUpdated is posted,
\* whether a querystate or the change listener of the last store instance asks.
C9_FailedOpenIsSilent ==
    dbIsInitialized = "false" =>
        /\ retryCount = 3
        /\ currentUpdate = NoUpdate /\ steps = EmptyBag
        /\ \A i \in 1..Len(calls) : calls[i].fn = "destroy"
        /\ NumPosted(out, "stateUpdated") = 0

\* C9 as amended: once the store has failed to open 4 times, no request creates a
\* job or calls a store primitive of the update, and no querystate posts a
\* stateUpdated; only a change reported by the last store instance posts one.
C9_FailedOpenDropsRequests ==
    dbIsInitialized = "false" =>
        /\ retryCount = 3
        /\ currentUpdate = NoUpdate /\ steps = EmptyBag
        /\ \A i \in 1..Len(calls) : calls[i].fn = "destroy"
        /\ NumPosted(out, "stateUpdated") > 0 => lastEvent.type = "change"

\* After the fourth failure, with every dataset of the last store instance
\* resolved, an update request was dropped.
C9_Witness ==
    /\ dbIsInitialized = "false" /\ initPc = "failed"
    /\ ~AnyInit(db)
    /\ lastEvent.type = "update"
    /\ currentUpdate = NoUpdate /\ calls = <<>> /\ out = <<>>

\* C10: an error callback with nextRetry posts one breadcrumb, and a warning if
\* and only if its retryCount is 5; so a step has caused exactly one warning once
\* its retry count has passed 5 and none before.
C10_WarningOnlyAtFive ==
    /\ lastEvent.type = "retry" =>
        /\ NumPosted(out, "breadcrumb") = 1
        /\ NumPosted(out, "error") = (IF lastEvent.count = 5 THEN 1 ELSE 0)
        /\ \A i \in 1..Len(out) : out[i].type = "error" => out[i].severity = "warning"
    /\ \A s \in BagToSet(steps) : s.warnings = (IF s.retry > 5 THEN 1 ELSE 0)

\* The callback with retryCount 6 of a step has posted only a breadcrumb and the
\* snapshot; the step's one warning dates from retryCount 5.
C10_Witness ==
    /\ lastEvent.type = "retry" /\ lastEvent.count = 6
    /\ NumPosted(out, "error") = 0 /\ NumPosted(out, "breadcrumb") = 1
    /\ \E s \in BagToSet(steps) : s.retry = 7 /\ s.warnings = 1

\* C11: an error callback without nextRetry posts exactly one breadcrumb and no
\* error when the error is an AbortError or an OfflineError, and exactly one
\* error of default severity, and no breadcrumb, for any other error.
C11_FinalErrorReport ==
    lastEvent.type = "failed" =>
        IF lastEvent.name \in {"AbortError", "OfflineError"}
        THEN NumPosted(out, "breadcrumb") = 1 /\ NumPosted(out, "error") = 0
        ELSE /\ NumPosted(out, "error") = 1 /\ NumPosted(out, "breadcrumb") = 0
             /\ \A i \in 1..Len(out) : out[i].type = "error" =>
                    out[i].severity = "" /\ out[i].name = lastEvent.name

\* A step has ended with an OfflineError: one breadcrumb, no error.
C11_Witness ==
    /\ lastEvent.type = "failed" /\ lastEvent.name = "OfflineError"
    /\ NumPosted(out, "breadcrumb") = 1 /\ NumPosted(out, "error") = 0

\* C12: every error callback, retrying or final, sets lastUpdateError to its own
\* error state and then posts a snapshot carrying it; lastUpdateError is cleared
\* only by a completion callback and otherwise changed only by an error callback;
\* every snapshot posted carries the current lastUpdateError.
C12_LastErrorCarried ==
    [][ /\ lastEvent'.type \in {"retry", "failed"} =>
            /\ lastUpdateError' =
                   [name |-> lastEvent'.name,
                    nextRetry |-> (lastEvent'.type = "retry"),
                    retryCount |-> IF lastEvent'.type = "retry"
                                   THEN lastEvent'.count ELSE -1]
            /\ NumPosted(out', "stateUpdated") = 1
            /\ out'[Len(out')].type = "stateUpdated"
        /\ lastUpdateError' # lastUpdateError =>
            \/ lastEvent'.type \in {"retry", "failed"}
            \/ lastEvent'.type = "complete" /\ lastUpdateError' = NoError
        /\ \A i \in 1..Len(out') : out'[i].type = "stateUpdated" =>
               out'[i].state.updateError = lastUpdateError'
      ]_vars

\* After a retrying error and a cancellation, a querystate posts a snapshot that
\* still carries the error.
C12_Witness ==
    /\ lastEvent.type = "querystate"
    /\ currentUpdate = NoUpdate
    /\ lastUpdateError # NoError /\ lastUpdateError.nextRetry
    /\ Len(out) = 1 /\ out[1].type = "stateUpdated"
    /\ out[1].state.updateError = lastUpdateError

\* C13 as stated: an update request received while dbIsInitialized is pending is
\* dropped: when its handler continues, no job is created and updateWithRetry is
\* not called.
C13_EarlyUpdateDropped ==
    [][ (waiting # <<>> /\ Head(waiting).type = "update" /\ waiting' = Tail(waiting)) =>
            /\ currentUpdate' = currentUpdate
            /\ ~HasCall(calls', "updateWithRetry")
      ]_vars

\* C13 as amended: an update request received while dbIsInitialized is pending
\* waits for the promise.  If it resolves to true the request is carried out like
\* any other: with an empty slot a job for its language starts at kanji with one
\* updateWithRetry call, and with a job of an earlier request in the slot it is a
\* duplicate or supersedes that job.  It is dropped only if the promise resolves
\* to false.
C13_EarlyUpdateDeferred ==
    [][ (waiting # <<>> /\ Head(waiting).type = "update" /\ waiting' = Tail(waiting)) =>
            LET msg == Head(waiting)
            IN  IF dbIsInitialized = "false"
                THEN currentUpdate' = NoUpdate /\ calls' = <<>> /\ steps' = EmptyBag
                ELSE IF currentUpdate = NoUpdate
                THEN /\ currentUpdate' = [lang |-> msg.lang, series |-> "kanji",
                                          forceUpdate |-> msg.force]
                     /\ calls' = <<CallUpdate("kanji", msg.lang)>>
                     /\ NumInFlight(steps') = NumInFlight(steps) + 1
                ELSE IF /\ currentUpdate.lang = msg.lang
                        /\ (currentUpdate.forceUpdate \/ ~msg.force)
                THEN currentUpdate' = currentUpdate /\ calls' = <<>> /\ steps' = steps
                ELSE /\ currentUpdate'.lang = msg.lang
                     /\ currentUpdate'.series = "kanji"
                     /\ calls'[1] = CallCancel(currentUpdate.series)
                     /\ calls'[Len(calls')] = CallUpdate("kanji", msg.lang)
      ]_vars

\* The store has opened and the update request that was waiting for it has
\* started a job.
C13_Witness ==
    /\ lastEvent.type = "update" /\ waiting = <<>>
    /\ dbIsInitialized = "true"
    /\ steps # EmptyBag /\ BagCardinality(steps) = 1
    /\ currentUpdate # NoUpdate /\ currentUpdate.series = "kanji"
    /\ calls = <<CallUpdate("kanji", PlainLang)>>
    /\ origin.idle /\ retryCount = 0 /\ \A d \in DataSeries : db[d] = "init"

\* C14: after updateBrowserAction the badge text is '!' if and only if one of
\* words, kanji and names is not 'ok', the state carries an update error, and the
\* error is neither an AbortError nor a QuotaExceededError; otherwise it is ''.
C14_ErrorBadge ==
    ui.fn = "updateBrowserAction" =>
        IF /\ (ui.words # "ok" \/ ui.kanji # "ok" \/ ui.names # "ok")
           /\ ui.error # ""
           /\ ui.error \notin {"AbortError", "QuotaExceededError"}
        THEN toolbar.badge.value = "!"
        ELSE toolbar.badge.value = ""

\* A badge shown earlier has been cleared by a state that carries a
\* QuotaExceededError while words is not 'ok'.
C14_Witness ==
    /\ ui.fn = "updateBrowserAction"
    /\ ui.error = "QuotaExceededError" /\ ui.words = "empty"
    /\ toolbar.badge.value = "" /\ toolbar.color.value = "yellow"

\* C20: the icon set by setDefaultToolbarIcon(p) is the one updateBrowserAction
\* sets for a disabled extension with preference p and an idle update state:
\* '10ten-disabled' for default and '10ten-sky-disabled' for sky.
C20_DefaultIconMatchesDisabled ==
    ui.fn = "setDefaultToolbarIcon" =>
        LET disabled == [ui EXCEPT !.enabled = FALSE,
                                   !.update = [type |-> "idle", series |-> "",
                                               percent |-> 0]]
            expected == IF ui.toolbarIcon = "sky" THEN "10ten-sky-disabled"
                        ELSE "10ten-disabled"
        IN  /\ toolbar.icon.value = UpdateBrowserAction(toolbar, disabled).icon.value
            /\ toolbar.icon.value =
                   "images/" \o expected \o (IF ui.svg THEN ".svg" ELSE "-16.png")

\* C15: a completion or error callback delivered for a cancelled step leaves the
\* job slot as it is (empty after a cancelupdate, the newer job after a
\* supersession) and starts no store step.
C15_CancelledStepIsInert ==
    [][ (lastEvent'.type \in {"complete", "failed"} /\ lastEvent'.cancelled) =>
            /\ currentUpdate' = currentUpdate
            /\ ~HasCall(calls', "updateWithRetry")
            /\ NumInFlight(steps') = NumInFlight(steps)
      ]_vars

\* C16: an error callback, retrying or final, leaves the job slot as it is and
\* calls no store primitive; a job in the slot is changed only by a completion
\* callback, a cancelupdate or an update request.
C16_ErrorKeepsJob ==
    [][ /\ lastEvent'.type \in {"retry", "failed"} =>
            currentUpdate' = currentUpdate /\ calls' = <<>>
        /\ (currentUpdate # NoUpdate /\ currentUpdate' # currentUpdate) =>
            lastEvent'.type \in {"complete", "cancelupdate", "update"}
      ]_vars

\* The step of the job has ended with a final error: no step is left at the
\* store and the job is still in the slot at that series.
C16_Witness ==
    /\ lastEvent.type = "failed" /\ ~lastEvent.cancelled
    /\ steps = EmptyBag
    /\ currentUpdate # NoUpdate /\ currentUpdate.series = lastEvent.series
    /\ lastUpdateError # NoError /\ ~lastUpdateError.nextRetry

\* C17: a delete request calls db.destroy() and nothing else, and leaves the job
\* slot, lastUpdateError and the store's steps as they are; when the destruction
\* settles, a rejection is posted as one error and a resolution as nothing, and
\* again nothing of the worker's state changes.
C17_DeleteKeepsJob ==
    [][ /\ lastEvent'.type = "delete" =>
            /\ calls' = <<CallDestroy>> /\ out' = <<>>
            /\ currentUpdate' = currentUpdate /\ lastUpdateError' = lastUpdateError
            /\ steps' = steps
            /\ UNCHANGED <<initPc, retryCount, dbIsInitialized>>
        /\ lastEvent'.type = "deleted" =>
            /\ calls' = <<>>
            /\ out' = (IF lastEvent'.ok THEN <<>> ELSE <<NotifyError("destroy", "")>>)
            /\ currentUpdate' = currentUpdate /\ lastUpdateError' = lastUpdateError
            /\ steps' = steps
            /\ UNCHANGED <<initPc, retryCount, dbIsInitialized>>
      ]_vars

\* The destruction asked for while a job was running at names has failed: the
\* job is still in the slot and its step still in flight.
C17_Witness ==
    /\ lastEvent.type = "deleted" /\ ~lastEvent.ok
    /\ currentUpdate # NoUpdate /\ currentUpdate.series = "names"
    /\ NumInFlight(steps) = 1
    /\ NumPosted(out, "error") = 1

\* C18: while the job slot is not empty, every step in flight at the store was
\* started for the series and the language of the job in the slot.
C18_SlotDescribesStep ==
    currentUpdate # NoUpdate =>
        \A s \in InFlight(steps) :
            s.series = currentUpdate.series /\ s.lang = currentUpdate.lang

\* The handler that ran last broke the premise of C19: a cancelupdate, an update
\* request that cancelled the running job, or the final error of a step that had
\* not been cancelled.
Interrupted ==
    \/ lastEvent.type = "cancelupdate"
    \/ lastEvent.type = "update" /\ HasCall(calls, "cancelUpdateWithRetry")
    \/ lastEvent.type = "failed" /\ ~lastEvent.cancelled

\* C19: with a store that eventually reports every step complete, a job in the
\* slot with a step in flight leads to an empty slot with updateComplete posted,
\* unless a cancelupdate, a superseding request or a final error comes first.
C19_UpdateCompletes ==
    (currentUpdate # NoUpdate /\ NumInFlight(steps) >= 1) ~>
        \/ currentUpdate = NoUpdate /\ NumPosted(out, "updateComplete") = 1
        \/ Interrupted

\* The words step of a job has completed after a retrying error: the slot is
\* empty, updateComplete is posted and the store has nothing left to run.
C19_Witness ==
    /\ lastEvent.type = "complete" /\ lastEvent.series = "words" /\ ~lastEvent.cancelled
    /\ currentUpdate = NoUpdate /\ steps = EmptyBag
    /\ NumPosted(out, "updateComplete") = 1
    /\ NumPosted(out, "stateUpdated") = 1
    /\ out[2].state.updateError = NoError

====
